---------------------------- MODULE Spec2Model ----------------------------
(***************************************************************************)
(* A model of two parts of the flax repository:                            *)
(*                                                                         *)
(*   - flax/training/prefetch_iterator.py: PrefetchIterator, a bounded     *)
(*     buffer between one producer worker thread and the consumer;         *)
(*   - flax/linen/module.py: the Module binder and its method wrapper.     *)
(*                                                                         *)
(* Every `with self._cond:` block of PrefetchIterator runs under the       *)
(* condition's lock, so it is one step here from the acquisition of the    *)
(* lock to its release (the end of the block, or the wait inside           *)
(* wait_for).  The two statements that run outside the lock, the call      *)
(* next(self._data_iter) of the worker and the assignment                  *)
(* `self._error = None` that follows Thread.start() in __init__, are       *)
(* steps of their own.  A thread parked in Condition.wait() moves only     *)
(* after a notifyAll().                                                    *)
(*                                                                         *)
(* module.py is modelled as it is written.  Module.__setattr__ calls       *)
(* get_suffix_value_pairs (line 428), a name the file does not define (the *)
(* helper of line 128 is _get_suffix_value_pairs), for every attribute     *)
(* that is neither `parent` nor a dataclass field.  The first statement of *)
(* __post_init__ that assigns such an attribute, `self._state = ...` (line *)
(* 464), therefore raises NameError: a constructed instance keeps the      *)
(* class defaults of lines 346-347, the shared record                      *)
(* _uninitialized_module_internal_state and scope = None.                  *)
(***************************************************************************)
EXTENDS Integers, Sequences, FiniteSets, TLC

\* ------------------------------------------------------------------ bounds
\* The longest source sequence.
MaxItems == 3
\* The largest buffer_size tried (every depth in 1..MaxBuf).
MaxBuf == 2
\* How many next() calls the consumer makes.
MaxNext == 5
\* How many close() calls are made.
MaxClose == 2
\* How many Module instances are constructed.
MaxMods == 2

VARIABLES
  \* ---- PrefetchIterator (prefetch_iterator.py)
  src_len,      \* the wrapped data_iter yields the items 1..src_len, then ends
  src_kind,     \* how it ends: "exhaust" (StopIteration) or "raise" (an error)
  src_pos,      \* how many items next(self._data_iter) has returned
  src_ended,    \* next(self._data_iter) has raised
  buffer_size,  \* self.buffer_size
  buffer,       \* self._buffer
  active,       \* self._active
  error,        \* self._error: "unset" while the attribute does not exist
  ctor,         \* where __init__ is: "start", "seterr", "done"
  wpc,          \* where the worker thread is in _prefetch_loop
  held,         \* the worker's local `item` (0: none)
  exc,          \* the worker's caught exception `e` ("None": none)
  cpc,          \* where the consumer is in __next__
  closes,       \* how many close() calls have completed
  results,      \* history: what each completed next() call returned or raised
  err_at,       \* history: Len(results) when the except block ran (-1: not yet)
  late_puts,    \* history: items appended to the buffer while inactive
  late_pulls,   \* history: items pulled from the source while inactive
  \* ---- Module (linen/module.py)
  modules,      \* the instances constructed so far: their class, parent,
                \* name and scope
  uninit_state, \* _uninitialized_module_internal_state, every class's _state
  module_stack, \* _context.module_stack of each thread (0 stands for None)
  outcome,      \* history: the last operation, its instance and how it ended
  args          \* history: the arguments of the last operation

pvars == <<src_len, src_kind, src_pos, src_ended, buffer_size, buffer, active,
           error, ctor, wpc, held, exc, cpc, closes, results, err_at,
           late_puts, late_pulls>>

mvars == <<modules, uninit_state, module_stack, outcome, args>>

vars == <<pvars, mvars>>

\* ------------------------------------------------- PrefetchIterator: helpers

\* The items the source yields, in order.
SourceItems == [i \in 1..src_len |-> i]

\* Python truthiness of self._error: None is falsy, an exception object truthy.
Truthy(e) == e \notin {"None", "unset"}

\* Condition.notifyAll(): every thread parked in wait() becomes runnable; it
\* re-acquires the lock and evaluates its predicate again.
notifyAll(pc) == IF pc = "wait" THEN "woken" ELSE pc

\* A variant of _predicate that lets the worker go on while the buffer is
\* full (<= for <).
predicate_off_by_one(buf, act) == Len(buf) <= buffer_size \/ ~act

\* _prefetch_loop._predicate
predicate(buf, act) == Len(buf) < buffer_size \/ ~act

\* A variant of the lambda of __next__ that never waits.
next_predicate_no_wait(buf, act) == TRUE

\* The lambda of __next__: self._buffer or not self._active
next_predicate(buf, act) == buf # <<>> \/ ~act

\* A variant of pop that returns the newest item (pop() for pop(0)).
pop_item_newest(buf) == buf[Len(buf)]

\* self._buffer.pop(0): the item removed and the list left.
pop_item(buf) == Head(buf)
pop_rest(buf) == Tail(buf)

\* self._buffer.append(item)
append_item(buf, item) == Append(buf, item)

\* ---------------------------------------------------- PrefetchIterator: Init

\* The state when __init__ has run lines 42-46 and is about to start the
\* worker thread: the attribute _error does not exist yet.
PInitWith(n, kind, size) ==
  /\ src_len = n
  /\ src_kind = kind
  /\ src_pos = 0
  /\ src_ended = FALSE
  /\ buffer_size = size
  /\ buffer = <<>>
  /\ active = TRUE
  /\ error = "unset"
  /\ ctor = "start"
  /\ wpc = "notstarted"
  /\ held = 0
  /\ exc = "None"
  /\ cpc = "idle"
  /\ closes = 0
  /\ results = <<>>
  /\ err_at = -1
  /\ late_puts = 0
  /\ late_pulls = 0

PInit ==
  \E n \in 0..MaxItems, kind \in {"exhaust", "raise"}, size \in 1..MaxBuf :
    PInitWith(n, kind, size)

\* ------------------------------------------------- PrefetchIterator: actions

\* __init__, lines 47-48: the worker thread starts running _prefetch_loop.
init_start_thread ==
  /\ UNCHANGED mvars
  /\ ctor = "start"
  /\ ctor' = "seterr"
  /\ wpc' = "pull"
  /\ UNCHANGED <<src_len, src_kind, src_pos, src_ended, buffer_size, buffer,
                 active, error, held, exc, cpc, closes, results, err_at,
                 late_puts, late_pulls>>

\* __init__, line 49: self._error = None, after the thread was started and
\* without the lock.
init_set_error ==
  /\ UNCHANGED mvars
  /\ ctor = "seterr"
  /\ ctor' = "done"
  /\ error' = "None"
  /\ UNCHANGED <<src_len, src_kind, src_pos, src_ended, buffer_size, buffer,
                 active, wpc, held, exc, cpc, closes, results, err_at,
                 late_puts, late_pulls>>

\* _prefetch_loop, line 78: item = next(self._data_iter), outside the lock.
\* The source returns its next item, or raises: StopIteration when it is
\* exhausted, its error otherwise.  Both are caught by `except Exception`
\* (an error is an Exception; KeyboardInterrupt and the like are not
\* modelled).
prefetch_loop_pull ==
  /\ UNCHANGED mvars
  /\ wpc = "pull"
  /\ IF src_pos < src_len
       THEN /\ held' = SourceItems[src_pos + 1]
            /\ src_pos' = src_pos + 1
            /\ wpc' = "put"
            /\ late_pulls' = IF active THEN late_pulls ELSE late_pulls + 1
            /\ UNCHANGED <<exc, src_ended>>
       ELSE /\ exc' = IF src_kind = "exhaust" THEN "StopIteration" ELSE "Err"
            /\ src_ended' = TRUE
            /\ wpc' = "except"
            /\ UNCHANGED <<held, src_pos, late_pulls>>
  /\ UNCHANGED <<src_len, src_kind, buffer_size, buffer, active, error, ctor,
                 cpc, closes, results, err_at, late_puts>>

\* A variant of lines 82-84 without the `if not self._active: return`.
after_wait_for_ignores_close(buf, act) ==
  IF ~predicate(buf, act) THEN "wait" ELSE "pull"

\* Where the worker goes when wait_for(_predicate) evaluates its predicate
\* under the lock (lines 82-84): it parks when the predicate is false,
\* returns when the iterator is inactive, and loops otherwise.
after_wait_for(buf, act) ==
  IF ~predicate(buf, act) THEN "wait"
  ELSE IF ~act THEN "done"
  ELSE "pull"

\* A variant of lines 79-84 without the notifyAll() after the append.
prefetch_loop_put_no_notify ==
  /\ UNCHANGED mvars
  /\ wpc = "put"
  /\ buffer' = append_item(buffer, held)
  /\ held' = 0
  /\ wpc' = after_wait_for(buffer', active)
  /\ late_puts' = IF active THEN late_puts ELSE late_puts + 1
  /\ UNCHANGED late_pulls
  /\ UNCHANGED <<src_len, src_kind, src_pos, src_ended, buffer_size, active,
                 error, ctor, exc, cpc, closes, results, err_at>>

\* _prefetch_loop, lines 79-84: append the item, notify, wait for room.
prefetch_loop_put ==
  /\ UNCHANGED mvars
  /\ wpc = "put"
  /\ buffer' = append_item(buffer, held)
  /\ held' = 0
  /\ cpc' = notifyAll(cpc)
  /\ wpc' = after_wait_for(buffer', active)
  /\ late_puts' = IF active THEN late_puts ELSE late_puts + 1
  /\ UNCHANGED late_pulls
  /\ UNCHANGED <<src_len, src_kind, src_pos, src_ended, buffer_size, active,
                 error, ctor, exc, closes, results, err_at>>

\* _prefetch_loop, lines 82-84: woken inside wait_for, the worker holds the
\* lock again and evaluates the predicate again.
prefetch_loop_wake ==
  /\ UNCHANGED mvars
  /\ wpc = "woken"
  /\ wpc' = after_wait_for(buffer, active)
  /\ UNCHANGED <<src_len, src_kind, src_pos, src_ended, buffer_size, buffer,
                 active, error, ctor, held, exc, cpc, closes, results, err_at,
                 late_puts, late_pulls>>

\* _prefetch_loop, lines 85-90: record the exception, deactivate, notify,
\* return.
prefetch_loop_except ==
  /\ UNCHANGED mvars
  /\ wpc = "except"
  /\ error' = exc
  /\ active' = FALSE
  /\ cpc' = notifyAll(cpc)
  /\ wpc' = "done"
  /\ err_at' = Len(results)
  /\ UNCHANGED <<src_len, src_kind, src_pos, src_ended, buffer_size, buffer,
                 ctor, held, exc, closes, results,
                 late_puts, late_pulls>>

\* The consumer calls next(): possible once the constructor has returned.
next_call ==
  /\ UNCHANGED mvars
  /\ ctor = "done"
  /\ cpc = "idle"
  /\ Len(results) < MaxNext
  /\ cpc' = "enter"
  /\ UNCHANGED <<src_len, src_kind, src_pos, src_ended, buffer_size, buffer,
                 active, error, ctor, wpc, held, exc, closes, results, err_at,
                 late_puts, late_pulls>>

\* The outcome of a next() call: an item returned, or an exception raised.
Item(i) == [k |-> "item", v |-> i]
Raised(e) == [k |-> e, v |-> 0]

\* What __next__ returns or raises once its predicate holds (lines 57-64):
\* the oldest item; else the recorded error when it is truthy; else a fresh
\* StopIteration.
next_result(buf, err) ==
  IF buf # <<>> THEN Item(pop_item(buf))
  ELSE IF Truthy(err) THEN Raised(err)
  ELSE Raised("StopIteration")

\* A variant of __next__ that forgets the recorded error once it has raised
\* it.
next_body_clears_error ==
  /\ UNCHANGED mvars
  /\ cpc \in {"enter", "woken"}
  /\ IF ~next_predicate(buffer, active)
       THEN /\ cpc' = "wait"
            /\ UNCHANGED <<buffer, wpc, results, error>>
       ELSE /\ cpc' = "idle"
            /\ results' = Append(results, next_result(buffer, error))
            /\ IF buffer # <<>>
                 THEN /\ buffer' = pop_rest(buffer)
                      /\ wpc' = notifyAll(wpc)
                      /\ UNCHANGED error
                 ELSE /\ error' = "None"
                      /\ UNCHANGED <<buffer, wpc>>
  /\ UNCHANGED <<src_len, src_kind, src_pos, src_ended, buffer_size, active,
                 ctor, held, exc, closes, err_at, late_puts, late_pulls>>

\* __next__, lines 55-64, under the lock: wait_for evaluates the predicate
\* (on entry, and again after each wake-up); the consumer parks when it is
\* false; otherwise it pops the oldest item and notifies, or raises.
next_body ==
  /\ UNCHANGED mvars
  /\ cpc \in {"enter", "woken"}
  /\ IF ~next_predicate(buffer, active)
       THEN /\ cpc' = "wait"
            /\ UNCHANGED <<buffer, wpc, results>>
       ELSE /\ cpc' = "idle"
            /\ results' = Append(results, next_result(buffer, error))
            /\ IF buffer # <<>>
                 THEN /\ buffer' = pop_rest(buffer)
                      /\ wpc' = notifyAll(wpc)
                 ELSE UNCHANGED <<buffer, wpc>>
  /\ UNCHANGED <<src_len, src_kind, src_pos, src_ended, buffer_size, active,
                 error, ctor, held, exc, closes, err_at,
                 late_puts, late_pulls>>

\* A variant of close() without the notifyAll().
close_no_notify ==
  /\ UNCHANGED mvars
  /\ ctor = "done"
  /\ closes < MaxClose
  /\ active' = FALSE
  /\ closes' = closes + 1
  /\ UNCHANGED <<src_len, src_kind, src_pos, src_ended, buffer_size, buffer,
                 error, ctor, wpc, cpc, held, exc, results, err_at,
                 late_puts, late_pulls>>

\* A variant of close() that also empties the buffer.
close_clears_buffer ==
  /\ UNCHANGED mvars
  /\ ctor = "done"
  /\ closes < MaxClose
  /\ active' = FALSE
  /\ buffer' = <<>>
  /\ wpc' = notifyAll(wpc)
  /\ cpc' = notifyAll(cpc)
  /\ closes' = closes + 1
  /\ UNCHANGED <<src_len, src_kind, src_pos, src_ended, buffer_size,
                 error, ctor, held, exc, results, err_at,
                 late_puts, late_pulls>>

\* close(), lines 66-69: from any thread, once the object is constructed.
close ==
  /\ UNCHANGED mvars
  /\ ctor = "done"
  /\ closes < MaxClose
  /\ active' = FALSE
  /\ wpc' = notifyAll(wpc)
  /\ cpc' = notifyAll(cpc)
  /\ closes' = closes + 1
  /\ UNCHANGED <<src_len, src_kind, src_pos, src_ended, buffer_size, buffer,
                 error, ctor, held, exc, results, err_at,
                 late_puts, late_pulls>>

\* The steps of the worker thread, and of the consumer inside a next() call.
WorkerStep ==
  \/ prefetch_loop_pull
  \/ prefetch_loop_put
  \/ prefetch_loop_wake
  \/ prefetch_loop_except

PNext ==
  \/ init_start_thread
  \/ init_set_error
  \/ prefetch_loop_pull
  \/ prefetch_loop_put
  \/ prefetch_loop_wake
  \/ prefetch_loop_except
  \/ next_call
  \/ next_body
  \/ close

\* ------------------------------------------------------- Module: helpers

\* _ModuleInternalState (lines 271-281)
ModuleInternalState(c, s, v, a) ==
  [in_compact_method |-> c, in_setup |-> s, last_varname |-> v,
   autoname_cursor |-> a]

\* A value of the field `parent`: _unspecified_parent, None, a Scope or a
\* Module instance (lines 367-369).
Unspecified == [t |-> "unspecified", id |-> 0]
NoParent == [t |-> "None", id |-> 0]
ScopeParent == [t |-> "Scope", id |-> 0]
ModuleParent(m) == [t |-> "Module", id |-> m]

Instances == 1..Len(modules)
ParentValues ==
  {Unspecified, NoParent, ScopeParent} \cup {ModuleParent(m) : m \in Instances}
\* The `name` argument: None, a free name, and a name that is already an
\* attribute of every Module class (line 347).
NameValues == {"None", "a", "scope"}
FreeNames == {"None", "a"}
\* The Module subclasses instances are made of.
Classes == {"Dense", "Conv"}
\* Attributes that are neither `parent` nor a dataclass field.
OtherAttrs == {"_state", "dense"}
MethodKinds == {"setup", "compact", "plain"}
Collections == {"params", "batch_stats"}

\* cls.__dataclass_fields__ of a subclass without fields of its own: the two
\* fields _customized_dataclass_transform appends.
dataclass_fields == {"parent", "name"}

\* __setattr__, lines 421-428: an attribute that is neither `parent` nor a
\* dataclass field reaches the call of get_suffix_value_pairs, which is not
\* defined: NameError.
setattr_raises(name) == name # "parent" /\ name \notin dataclass_fields

\* self._state of an instance: the class attribute of line 346, since no
\* instance gets a _state of its own (line 464 raises).
state_of(m) == uninit_state

\* A variant of _initialization_allowed that permits everything.
initialization_always_allowed(m) == TRUE

\* Module._initialization_allowed (lines 529-531)
initialization_allowed(m) ==
  state_of(m).in_setup \/ state_of(m).in_compact_method

Outcome(op, m, res) == [op |-> op, m |-> m, res |-> res]

\* _ModuleInternalState.autoname_cursor after reset() (line 287) and in a
\* fresh record (line 281): a dict without entries.  The class-level record
\* of line 289 holds None in its place.
EmptyCursor == "{}"

\* The name lines 489-491 give the unnamed instance of class `prefix` when
\* the parent's counter for that class stands at `cursor`.
autoname(prefix, cursor) == prefix \o "_" \o ToString(cursor)

\* _all_names_on_object(self) (lines 154-165) for an instance as line 464
\* leaves it, without the names of methods: its own __dict__ holds the two
\* fields, and the classes of its MRO hold the fields' defaults (lines 369,
\* 371) and the attributes of lines 346-347.
all_names_on_object(m) == {"parent", "name", "_state", "scope"}

\* A value assigned to an attribute: a Module instance (written as the
\* parent value that names it), an array or Variable handle, or anything
\* else.
ArrayValue == [t |-> "ndarray", id |-> 0]
PlainValue == [t |-> "other", id |-> 0]
AttrValues == {ModuleParent(m) : m \in Instances} \cup {ArrayValue, PlainValue}

\* The threads that use modules; _context keeps one stack for each
\* (threading.local, lines 95-101).
Threads == {1, 2}
MainThread == 1
ThreadValue(t) == [t |-> "thread", id |-> t]

\* What is kept of an operation's arguments.  kind: the kind of the method
\* called, or for a constructor whether the parent was left out; val: the
\* value assigned, or the calling thread.
Args(kind, val) == [kind |-> kind, val |-> val]
NoArgs == Args("", PlainValue)

\* ---------------------------------------------------------- Module: Init

\* No instance yet; the class-level state record of lines 289-290; every
\* thread's module stack as its first read makes it, with the bottom None
\* alone (lines 99-100).
MInit ==
  /\ modules = <<>>
  /\ uninit_state = ModuleInternalState(FALSE, FALSE, "None", "None")
  /\ module_stack = [t \in Threads |-> <<0>>]
  /\ outcome = Outcome("none", 0, "none")
  /\ args = NoArgs

\* ------------------------------------------------------- Module: actions

\* A constructor call c(parent=p, name=n) of a Module subclass c on thread t
\* (p = Unspecified: no parent argument).  The dataclass __init__
\* assigns the fields (their __setattr__ branches do nothing more), then
\* __post_init__ runs up to line 464, whose assignment of _state raises
\* NameError: lines 465-510 never run, and the instance is left with the
\* class defaults.
construct(t, c, p, n) ==
  /\ UNCHANGED pvars
  /\ Len(modules) < MaxMods
  /\ setattr_raises("_state")
  /\ modules' = Append(modules,
                       [cls |-> c, parent |-> p, name |-> n, scope |-> "None"])
  /\ outcome' = Outcome("construct", Len(modules) + 1, "NameError")
  /\ args' = Args(IF p = Unspecified THEN "implicit" ELSE "explicit",
                  ThreadValue(t))
  /\ UNCHANGED <<uninit_state, module_stack>>

\* self.parent = p (lines 421-422, 454).
setattr_parent(m, p) ==
  /\ UNCHANGED pvars
  /\ ~setattr_raises("parent")
  /\ modules' = [modules EXCEPT ![m].parent = p]
  /\ outcome' = Outcome("setattr", m, "ok")
  /\ args' = NoArgs
  /\ UNCHANGED <<uninit_state, module_stack>>

\* self.name = n, a dataclass field (lines 424-425, 454).
setattr_name(m, n) ==
  /\ UNCHANGED pvars
  /\ ~setattr_raises("name")
  /\ modules' = [modules EXCEPT ![m].name = n]
  /\ outcome' = Outcome("setattr", m, "ok")
  /\ args' = NoArgs
  /\ UNCHANGED <<uninit_state, module_stack>>

\* self.<a> = v for any other attribute (lines 427-428): NameError, whatever
\* the value is, before the value is looked at and before line 454 attaches
\* anything.
setattr_other(m, a, v) ==
  /\ UNCHANGED pvars
  /\ setattr_raises(a)
  /\ outcome' = Outcome("setattr", m, "NameError")
  /\ args' = Args("", v)
  /\ UNCHANGED <<modules, uninit_state, module_stack>>

\* A variant of the method wrapper without the check of lines 223-224.
wrapped_module_method_no_orphan_check(t, m, kind) ==
  /\ UNCHANGED pvars
  /\ uninit_state' =
       IF kind = "compact"
         THEN [uninit_state EXCEPT !.in_compact_method = TRUE]
       ELSE IF kind = "setup"
         THEN [uninit_state EXCEPT !.in_setup = TRUE]
       ELSE uninit_state
  /\ module_stack' = [module_stack EXCEPT ![t] = Append(@, m)]
  /\ outcome' = Outcome("method", m, "running")
  /\ args' = Args(kind, ThreadValue(t))
  /\ UNCHANGED modules

\* A variant of the method wrapper that takes every method that is not
\* compact for setup, and sets the flag before the check of lines 223-224.
wrapped_module_method_any_is_setup(t, m, kind) ==
  /\ UNCHANGED pvars
  /\ args' = Args(kind, ThreadValue(t))
  /\ uninit_state' =
       IF kind = "compact"
         THEN [uninit_state EXCEPT !.in_compact_method = TRUE]
         ELSE [uninit_state EXCEPT !.in_setup = TRUE]
  /\ IF modules[m].scope = "None"
       THEN /\ outcome' = Outcome("method", m, "ValueError")
            /\ UNCHANGED <<modules, module_stack>>
       ELSE /\ module_stack' = [module_stack EXCEPT ![t] = Append(@, m)]
            /\ outcome' = Outcome("method", m, "running")
            /\ UNCHANGED modules

\* wrap_method.wrapped_module_method (lines 219-230), a call of an
\* instrumented method of instance m on thread t: a compact method, setup,
\* or any other.
\* Without a scope the call raises ValueError at line 224, before a flag is
\* set and before the module is pushed; with a scope lines 226-230 set the
\* flag of self._state and push self.
wrapped_module_method(t, m, kind) ==
  /\ UNCHANGED pvars
  /\ args' = Args(kind, ThreadValue(t))
  /\ IF modules[m].scope = "None"
       THEN /\ outcome' = Outcome("method", m, "ValueError")
            /\ UNCHANGED <<modules, uninit_state, module_stack>>
       ELSE /\ uninit_state' =
                 IF kind = "compact"
                   THEN [uninit_state EXCEPT !.in_compact_method = TRUE]
                 ELSE IF kind = "setup"
                   THEN [uninit_state EXCEPT !.in_setup = TRUE]
                 ELSE uninit_state
            /\ module_stack' = [module_stack EXCEPT ![t] = Append(@, m)]
            /\ outcome' = Outcome("method", m, "running")
            /\ UNCHANGED modules

\* A variant of apply that binds the module it is called on instead of a
\* clone.
apply_in_place(t, m, kind) ==
  /\ UNCHANGED pvars
  /\ Len(modules) < MaxMods
  /\ setattr_raises("_state")
  /\ modules' = Append([modules EXCEPT ![m].parent = ScopeParent],
                       [cls |-> modules[m].cls, parent |-> ScopeParent,
                        name |-> modules[m].name, scope |-> "None"])
  /\ outcome' = Outcome("apply", Len(modules) + 1, "NameError")
  /\ args' = Args(kind, ThreadValue(t))
  /\ UNCHANGED <<uninit_state, module_stack>>

\* Module.apply (lines 620-629) with the method to run: the function handed
\* to flax.core.apply is called with a root Scope and clones self onto that
\* scope (clone, lines 545-547: the same class and name, parent=scope)
\* before it calls the method.  The clone's __post_init__ raises NameError at
\* line 464, so the method is never called and apply raises.
apply(t, m, kind) ==
  /\ UNCHANGED pvars
  /\ Len(modules) < MaxMods
  /\ setattr_raises("_state")
  /\ modules' = Append(modules,
                       [cls |-> modules[m].cls, parent |-> ScopeParent,
                        name |-> modules[m].name, scope |-> "None"])
  /\ outcome' = Outcome("apply", Len(modules) + 1, "NameError")
  /\ args' = Args(kind, ThreadValue(t))
  /\ UNCHANGED <<uninit_state, module_stack>>

\* Module.init_with_output (lines 631-637): apply with an empty variable
\* dictionary and mutable=True, so it ends as apply ends.
init_with_output(t, m, kind) ==
  /\ UNCHANGED pvars
  /\ Len(modules) < MaxMods
  /\ setattr_raises("_state")
  /\ modules' = Append(modules,
                       [cls |-> modules[m].cls, parent |-> ScopeParent,
                        name |-> modules[m].name, scope |-> "None"])
  /\ outcome' = Outcome("init_with_output", Len(modules) + 1, "NameError")
  /\ args' = Args(kind, ThreadValue(t))
  /\ UNCHANGED <<uninit_state, module_stack>>

\* Module.init (lines 639-642): init_with_output, of which it would keep the
\* variables.
init(t, m, kind) ==
  /\ UNCHANGED pvars
  /\ Len(modules) < MaxMods
  /\ setattr_raises("_state")
  /\ modules' = Append(modules,
                       [cls |-> modules[m].cls, parent |-> ScopeParent,
                        name |-> modules[m].name, scope |-> "None"])
  /\ outcome' = Outcome("init", Len(modules) + 1, "NameError")
  /\ args' = Args(kind, ThreadValue(t))
  /\ UNCHANGED <<uninit_state, module_stack>>

\* A value returned by __hash__, kept in args.val.
HashValue(h) == [t |-> h, id |-> 0]

RECURSIVE hash_fn(_)
RECURSIVE wrapped(_)

\* A variant of the dataclass __hash__ that hashes the object's identity,
\* as object.__hash__ does.
hash_fn_by_identity(m) == "<" \o ToString(m) \o ">"

\* The __hash__ that dataclass(unsafe_hash=True) generates (line 374): the
\* hash of the tuple of the fields, (parent, name) here.  The hash of a
\* tuple is written as the tuple of the hashes; a parent that is a Module
\* is hashed by its own __hash__, whose error propagates; the sentinel, None
\* and the Scope hash as themselves.
hash_fn(m) ==
  LET parent_hash ==
        IF modules[m].parent.t = "Module"
          THEN wrapped(modules[m].parent.id)
          ELSE modules[m].parent.t
  IN IF parent_hash = "ValueError"
       THEN "ValueError"
       ELSE "(" \o parent_hash \o "," \o modules[m].name \o ")"

\* _wrap_hash.wrapped (lines 243-248), the __hash__ of every Module class
\* (line 375): ValueError for an instance that holds a scope, otherwise the
\* dataclass hash.
wrapped(m) ==
  IF modules[m].scope # "None" THEN "ValueError" ELSE hash_fn(m)

\* hash(m) called on an instance.
hash(m) ==
  /\ UNCHANGED pvars
  /\ outcome' = Outcome("hash", m,
                        IF wrapped(m) = "ValueError" THEN "ValueError" ELSE "ok")
  /\ args' = Args("", HashValue(wrapped(m)))
  /\ UNCHANGED <<modules, uninit_state, module_stack>>

\* How a declaration ends (the common part of variable and param, lines
\* 571-577 and 599-605): ValueError when initialization is not allowed;
\* otherwise _name_taken reads self.scope.reservations (line 526) of a
\* scope that is None: AttributeError.
declaration_result(m) ==
  IF ~initialization_allowed(m) THEN "ValueError" ELSE "AttributeError"

\* Module.variable(col, name, ...), lines 549-582.
variable(m, col, name) ==
  /\ UNCHANGED pvars
  /\ outcome' = Outcome("variable", m, declaration_result(m))
  /\ args' = NoArgs
  /\ UNCHANGED <<modules, uninit_state, module_stack>>

\* Module.param(name, ...), lines 584-610.
param(m, name) ==
  /\ UNCHANGED pvars
  /\ outcome' = Outcome("param", m, declaration_result(m))
  /\ args' = NoArgs
  /\ UNCHANGED <<modules, uninit_state, module_stack>>

MNext ==
  \/ \E p \in ParentValues, n \in FreeNames :
       construct(MainThread, "Dense", p, n)
  \/ \E m \in Instances, p \in ParentValues : setattr_parent(m, p)
  \/ \E m \in Instances, n \in FreeNames : setattr_name(m, n)
  \/ \E m \in Instances, a \in OtherAttrs : setattr_other(m, a, PlainValue)
  \/ \E m \in Instances, kind \in MethodKinds :
       wrapped_module_method(MainThread, m, kind)
  \/ \E m \in Instances, col \in Collections, n \in {"a", "b"} :
       variable(m, col, n)
  \/ \E m \in Instances, n \in {"a", "b"} : param(m, n)

\* The same operations over more inputs: two classes, a name that collides
\* with a class attribute, and Module instances and arrays as the values
\* assigned.
BinderNext ==
  \/ \E t \in Threads, c \in Classes, p \in ParentValues, n \in NameValues :
       construct(t, c, p, n)
  \/ \E m \in Instances, p \in ParentValues : setattr_parent(m, p)
  \/ \E m \in Instances, n \in NameValues : setattr_name(m, n)
  \/ \E m \in Instances, a \in OtherAttrs, v \in AttrValues :
       setattr_other(m, a, v)
  \/ \E t \in Threads, m \in Instances, kind \in MethodKinds :
       wrapped_module_method(t, m, kind)
  \/ \E t \in Threads, m \in Instances, kind \in MethodKinds :
       apply(t, m, kind)
  \/ \E m \in Instances, col \in Collections, n \in {"a", "b"} :
       variable(m, col, n)
  \/ \E m \in Instances, n \in {"a", "b"} : param(m, n)

\* Template modules: instances constructed outside any method, whose parent
\* (when it is a module) was constructed before them, and the operations a
\* caller applies to them from outside.
TemplateNext ==
  \/ \E c \in Classes, p \in ParentValues, n \in FreeNames :
       construct(MainThread, c, p, n)
  \/ \E m \in Instances, kind \in MethodKinds : apply(MainThread, m, kind)
  \/ \E m \in Instances, kind \in MethodKinds :
       init_with_output(MainThread, m, kind)
  \/ \E m \in Instances, kind \in MethodKinds : init(MainThread, m, kind)
  \/ \E m \in Instances : hash(m)

\* ------------------------------------------------------- specifications

\* The prefetch iterator alone, for every source and buffer depth.
PrefetchInit == PInit /\ MInit
PrefetchSpec == PrefetchInit /\ [][PNext]_vars

\* The module system alone (the iterator stays as constructed).
ModuleInit == PInitWith(0, "exhaust", 1) /\ MInit
ModuleSpec == ModuleInit /\ [][MNext]_vars

\* The module system over the larger inputs.
BinderSpec == ModuleInit /\ [][BinderNext]_vars

\* Template modules and what is done with them from outside any method.
TemplateSpec == ModuleInit /\ [][TemplateNext]_vars

\* The scheduler runs every thread that can run: the worker thread, and the
\* consumer inside a next() call.  Calling next() or close() at all is the
\* caller's choice and is under no fairness.
PrefetchFairSpec ==
  PrefetchSpec /\ WF_vars(WorkerStep) /\ WF_vars(next_body)

\* Only the consumer's thread is scheduled fairly; the worker may be stuck in
\* next(self._data_iter) for ever.
ConsumerFairSpec == PrefetchSpec /\ WF_vars(next_body)

\* ------------------------------------------------- PrefetchIterator: claims

\* The items among the outcomes of the next() calls so far.
IsItem(r) == r.k = "item"
ItemsOf(rs) == SelectSeq(rs, IsItem)

\* C1: the items returned by next() are, in order, a prefix of the sequence
\* the source produced: the i-th item returned is the i-th item of the
\* source, so none is skipped and none is delivered twice.  (It holds with
\* and without close().)
C1_DeliveryOrder ==
  /\ Len(ItemsOf(results)) <= src_pos
  /\ \A i \in 1..Len(ItemsOf(results)) :
       ItemsOf(results)[i] = Item(SourceItems[i])

\* C1's case: with a buffer of depth 2 holding two items at once, three items
\* were delivered and no close() was called.
C1_Witness ==
  /\ closes = 0
  /\ buffer_size >= 2
  /\ Len(ItemsOf(results)) = 3
  /\ src_pos = 3

\* C2 (as claimed): once the source has raised its error and the worker has
\* run its except block, the error is recorded and the iterator inactive,
\* and every next() call completing after that returns a buffered item or
\* raises that error, never a normal end-of-sequence.
C2_ErrorDelivered ==
  (src_kind = "raise" /\ err_at >= 0) =>
    /\ error = "Err"
    /\ ~active
    /\ \A i \in (err_at + 1)..Len(results) : results[i].k \in {"item", "Err"}

\* C3 (as claimed): after a next() call raised the source's error, every
\* later next() call signals a normal end-of-sequence.
C3_ErrorRaisedOnce ==
  \A i, j \in 1..Len(results) :
    (i < j /\ results[i].k = "Err") => results[j].k = "StopIteration"

\* C3 (amended): after a next() call raised the source's error, every later
\* next() call raises that same error again; the recorded error stays
\* recorded.
C3_ErrorRaisedAgain ==
  /\ \A i, j \in 1..Len(results) :
       (i < j /\ results[i].k = "Err") => results[j] = Raised("Err")
  /\ (\E i \in 1..Len(results) : results[i].k = "Err") =>
       (error = "Err" /\ buffer = <<>> /\ wpc = "done")

\* C3's case: an item was delivered, then the error was raised by two
\* successive next() calls.
C3_Witness ==
  /\ Len(results) >= 3
  /\ results[1].k = "item"
  /\ results[Len(results) - 1].k = "Err"
  /\ results[Len(results)].k = "Err"

\* C4: with a source that yields src_len items and is then exhausted, and no
\* close(), the i-th next() call returns the i-th item for i <= src_len and
\* every call after that signals end-of-sequence: end-of-sequence is never
\* signalled while an item is undelivered.
C4_Exhaustion ==
  (src_kind = "exhaust" /\ closes = 0) =>
    \A i \in 1..Len(results) :
      results[i] = IF i <= src_len THEN Item(SourceItems[i])
                   ELSE Raised("StopIteration")

\* C4's case: depth 1, three items delivered, then end-of-sequence twice.
C4_Witness ==
  /\ src_kind = "exhaust"
  /\ closes = 0
  /\ buffer_size = 1
  /\ src_len = 3
  /\ Len(results) = src_len + 2
  /\ results[src_len + 1] = Raised("StopIteration")
  /\ results[src_len + 2] = Raised("StopIteration")

\* C5: the buffer never holds more than buffer_size items, also after
\* close() and when an item the worker was pulling during close() is
\* appended afterwards.
C5_BoundedBuffer == Len(buffer) <= buffer_size

\* C5's case: the worker appended an item after close(), and the buffer is
\* full.
C5_Witness ==
  /\ closes >= 1
  /\ late_puts >= 1
  /\ Len(buffer) = buffer_size

\* C6: after close() the consumer is never parked in wait (a consumer blocked
\* in next() when close() ran has been woken), and every next() call in
\* progress after close() completes, whatever the worker does.
C6_CloseUnblocks ==
  /\ [](closes >= 1 => cpc # "wait")
  /\ ((closes >= 1 /\ cpc # "idle") ~> (cpc = "idle"))

\* C6's case: the consumer, blocked on an empty buffer of an active iterator,
\* was woken by close() (nothing was put and no error recorded).
C6_Witness ==
  /\ closes >= 1
  /\ cpc = "woken"
  /\ buffer = <<>>
  /\ src_pos = 0
  /\ err_at = -1

\* C7: the worker and the consumer are never both parked; and, when the
\* threads are scheduled fairly, every next() call completes.
C7_NoDeadlock ==
  /\ [](~(wpc = "wait" /\ cpc = "wait"))
  /\ ((cpc # "idle") ~> (cpc = "idle"))

\* C7's case: without any close(), the consumer blocked on the empty buffer
\* and the worker's append woke it.
C7_Witness ==
  /\ closes = 0
  /\ cpc = "woken"
  /\ buffer # <<>>
  /\ active

\* C8: a close() after the first changes nothing: the iterator stays
\* inactive, and the buffer, the recorded error and both threads' positions
\* are as they were; and close() can always run to completion, whatever the
\* worker is doing.
C8_CloseIdempotent ==
  /\ [][(closes' > closes /\ closes >= 1) =>
          /\ ~active /\ ~active'
          /\ UNCHANGED <<buffer, error, wpc, cpc, held, exc, results>>]_vars
  /\ []((ctor = "done" /\ closes < MaxClose) => ENABLED close)

\* C8's case: close() was called twice while the buffer held an item and the
\* worker was still running.
C8_Witness ==
  /\ closes >= 2
  /\ buffer # <<>>
  /\ wpc \notin {"done", "notstarted"}

\* C32: once inactive the iterator never becomes active again; once the
\* source has exhausted or raised, the worker is in its except block or has
\* returned, so it pulls nothing more, and it terminates; a worker that has
\* returned stays so; after close() the worker pulls at most one further
\* item from the source and appends at most one further item to the buffer,
\* and, scheduled fairly with a source whose next returns, it terminates.
C32_WorkerTerminates ==
  /\ [][~active => ~active']_vars
  /\ [](src_ended => wpc \in {"except", "done"})
  /\ [][src_ended => UNCHANGED src_pos]_vars
  /\ [][wpc = "done" => wpc' = "done"]_vars
  /\ [](late_pulls <= 1 /\ late_puts <= 1)
  /\ (src_ended ~> (wpc = "done"))
  /\ ((closes >= 1) ~> (wpc = "done"))

\* C32's case: close() ran while the worker was about to pull from a source
\* that had more to give; the worker pulled one more item, appended it and
\* returned, leaving the rest of the source alone.
C32_Witness ==
  /\ closes >= 1
  /\ late_pulls = 1
  /\ late_puts = 1
  /\ wpc = "done"
  /\ ~src_ended
  /\ src_pos < src_len

\* ------------------------------------------------------------ Module: claims

\* The lifecycle flags an instance reads, whatever _initialization_allowed
\* computes from them.
NoFlagSet(m) == ~state_of(m).in_setup /\ ~state_of(m).in_compact_method

\* C9: a call of variable() or param() on an instance with neither in_setup
\* nor in_compact_method set ends in ValueError (the configuration error)
\* and changes neither the instance (its children, its scope) nor the state
\* record with the last declared name.
C9_DeclarationGated ==
  [][\A m \in Instances :
       (/\ NoFlagSet(m)
        /\ \/ \E col \in Collections, n \in {"a", "b"} : variable(m, col, n)
           \/ \E n \in {"a", "b"} : param(m, n))
       => /\ outcome'.res = "ValueError"
          /\ UNCHANGED <<modules, uninit_state, module_stack>>]_vars

\* C9's case: variable() or param() was called on an instance with no flag
\* set and raised ValueError.
C9_Witness ==
  /\ outcome.op \in {"variable", "param"}
  /\ outcome.res = "ValueError"
  /\ NoFlagSet(outcome.m)

\* C10: a call of an instrumented method (compact, setup or other) on an
\* instance without a scope ends in ValueError and leaves the thread's
\* module stack and the lifecycle flags as they were.
C10_OrphanRejected ==
  [][\A t \in Threads, m \in Instances, kind \in MethodKinds :
       (modules[m].scope = "None" /\ wrapped_module_method(t, m, kind))
       => /\ outcome'.res = "ValueError"
          /\ UNCHANGED <<module_stack, uninit_state, modules>>]_vars

\* C10's case: a method was called on an instance without a scope and
\* rejected.
C10_Witness ==
  /\ outcome.op = "method"
  /\ outcome.res = "ValueError"
  /\ modules[outcome.m].scope = "None"
  /\ \A t \in Threads : module_stack[t] = <<0>>

C17_AttachOutsideSetup ==
  (/\ outcome.op = "setattr"
   /\ args.val.t = "Module"
   /\ ~state_of(outcome.m).in_setup)
  => outcome.res = "ValueError"

C21_TemplateUnchanged ==
  [][\A t \in Threads, m \in Instances, kind \in MethodKinds :
       (\/ apply(t, m, kind)
        \/ init_with_output(t, m, kind)
        \/ init(t, m, kind))
       => /\ \A j \in Instances : modules'[j] = modules[j]
          /\ modules'[m].scope = "None"
          /\ UNCHANGED <<uninit_state, module_stack>>
          /\ Len(modules') = Len(modules) + 1
          /\ modules'[Len(modules')].cls = modules[m].cls
          /\ modules'[Len(modules')].name = modules[m].name
          /\ modules'[Len(modules')].parent = ScopeParent]_vars

\* C21's case: init was called on a named template whose parent is not a
\* Scope; the call failed, and the template is still there beside its
\* clone.
C21_Witness ==
  /\ outcome.op = "init"
  /\ outcome.res = "NameError"
  /\ \E m \in 1..(outcome.m - 1) :
       /\ modules[m].name = "a"
       /\ modules[m].name = modules[outcome.m].name
       /\ modules[m].cls = modules[outcome.m].cls
       /\ modules[m].parent = NoParent
       /\ modules[m].scope = "None"

TopOf(t) ==
  IF module_stack[t][Len(module_stack[t])] = 0
    THEN NoParent
    ELSE ModuleParent(module_stack[t][Len(module_stack[t])])

\* The modules whose methods are executing on thread t.
ExecutingOn(t) == {module_stack[t][i] : i \in 2..Len(module_stack[t])}

C24_ImplicitParent ==
  (outcome.op = "construct" /\ args.kind = "implicit")
  => /\ modules[outcome.m].parent = TopOf(args.val.id)
     /\ TopOf(args.val.id) = NoParent => modules[outcome.m].scope = "None"

\* Two instances with identical configuration fields (parent and name; a
\* class without fields of its own has no others).
SameFields(i, j) ==
  /\ modules[i].parent = modules[j].parent
  /\ modules[i].name = modules[j].name

\* C25: hashing an instance that holds no scope succeeds and changes
\* nothing, and when the call before it hashed the same instance or one with
\* identical configuration fields, the value is the same; hashing an
\* instance that holds a scope fails with ValueError.
C25_HashUnbound ==
  [][\A m \in Instances :
       hash(m)
       => /\ UNCHANGED <<modules, uninit_state, module_stack>>
          /\ modules[m].scope # "None" => outcome'.res = "ValueError"
          /\ modules[m].scope = "None" =>
               /\ outcome'.res = "ok"
               /\ (outcome.op = "hash" /\ SameFields(outcome.m, m))
                    => args'.val = args.val]_vars

\* C25's case: two instances of different classes with identical fields,
\* neither holding a scope, and the second was hashed.
C25_Witness ==
  /\ outcome.op = "hash"
  /\ outcome.res = "ok"
  /\ outcome.m = Len(modules)
  /\ \E j \in 1..(Len(modules) - 1) :
       /\ SameFields(j, outcome.m)
       /\ modules[j].cls # modules[outcome.m].cls
       /\ modules[j].name = "a"
       /\ modules[j].scope = "None"
  /\ modules[outcome.m].scope = "None"

=============================================================================
